---- MODULE Spec2Model ----
(***************************************************************************)
(* A model of the MagnaProbe cleaning pipeline: magnaprobe.py (schema      *)
(* resolution, depth unit conversion, calibration-point removal) and the   *)
(* two drivers that run it (magnaprobe.py __main__, and                    *)
(* batch_magnaprobe.batch_clean).                                          *)
(*                                                                         *)
(* Representation.                                                         *)
(*  - A string is the sequence of its character codes, so that lower(),    *)
(*    the substring test `in`, slicing and sorted() are computed as Python *)
(*    computes them.                                                       *)
(*  - A number is held in fixed point, in hundredths: 0.02 is 2, 1.18 is   *)
(*    118, a cell of 50 (cm) is 5000 and 5000 / 100.0 is 50 (0.50 m).      *)
(*    The cells of the centimetre columns are whole centimetres, so the    *)
(*    division by 100.0 is exact in this representation.                   *)
(*  - A DataFrame is [index, columns, data]: the row labels in row order,  *)
(*    the column names in column order, and for each column name the       *)
(*    sequence of its cells in row order.                                  *)
(***************************************************************************)
EXTENDS Integers, Sequences, FiniteSets

(***************************************************************************)
(* Bounds of the model.                                                    *)
(***************************************************************************)
\* longest record sequence of the pattern-detector specification
MaxLenPattern == 7
\* longest record sequence of the driver specification (prefix-tagged rows)
MaxLenPrefix == 3
\* longest record sequence of the specification that varies the bounds
MaxLenBounds == 3

(***************************************************************************)
(* Strings.                                                                *)
(***************************************************************************)
\* "TIMESTAMP"
s_TIMESTAMP == <<84, 73, 77, 69, 83, 84, 65, 77, 80>>
\* "Counter"
s_Counter == <<67, 111, 117, 110, 116, 101, 114>>
\* "DepthCm"
s_DepthCm == <<68, 101, 112, 116, 104, 67, 109>>
\* "depth_cm"
s_depth_cm == <<100, 101, 112, 116, 104, 95, 99, 109>>
\* "depth_m"
s_depth_m == <<100, 101, 112, 116, 104, 95, 109>>
\* "depthBattVolts"
s_depthBattVolts == <<100, 101, 112, 116, 104, 66, 97, 116, 116, 86, 111, 108, 116, 115>>
\* "Latitude_y"
s_Latitude_y == <<76, 97, 116, 105, 116, 117, 100, 101, 95, 121>>
\* "Longitude_x"
s_Longitude_x == <<76, 111, 110, 103, 105, 116, 117, 100, 101, 95, 120>>
\* "lat"
s_lat == <<108, 97, 116>>
\* "lon"
s_lon == <<108, 111, 110>>
\* "latitude_a"
s_latitude_a == <<108, 97, 116, 105, 116, 117, 100, 101, 95, 97>>
\* "Longitude_a"
s_Longitude_a == <<76, 111, 110, 103, 105, 116, 117, 100, 101, 95, 97>>
\* "LatitudeDDDDD"
s_LatitudeDDDDD == <<76, 97, 116, 105, 116, 117, 100, 101, 68, 68, 68, 68, 68>>
\* "LongitudeDDDDD"
s_LongitudeDDDDD == <<76, 111, 110, 103, 105, 116, 117, 100, 101, 68, 68, 68, 68, 68>>
\* "altitudeB"
s_altitudeB == <<97, 108, 116, 105, 116, 117, 100, 101, 66>>
\* "Latitude"
s_Latitude == <<76, 97, 116, 105, 116, 117, 100, 101>>
\* "Longitude"
s_Longitude == <<76, 111, 110, 103, 105, 116, 117, 100, 101>>
\* "Snow Depth m"
s_Snow_Depth_m == <<83, 110, 111, 119, 32, 68, 101, 112, 116, 104, 32, 109>>
\* "geometry"
s_geometry == <<103, 101, 111, 109, 101, 116, 114, 121>>
\* "timestamp"
s_timestamp == <<116, 105, 109, 101, 115, 116, 97, 109, 112>>
\* "counter"
s_counter == <<99, 111, 117, 110, 116, 101, 114>>
\* "tude"
s_tude == <<116, 117, 100, 101>>
\* "dd"
s_dd == <<100, 100>>
\* "_a"
s__a == <<95, 97>>
\* "depth"
s_depth == <<100, 101, 112, 116, 104>>
\* "cm"
s_cm == <<99, 109>>
\* "_m"
s__m == <<95, 109>>

Range(s) == {s[i] : i \in DOMAIN s}

Min(a, b) == IF a < b THEN a ELSE b

\* str.lower(): 'A'..'Z' (65..90) become 'a'..'z'
lower(s) == [i \in DOMAIN s |-> IF s[i] >= 65 /\ s[i] <= 90 THEN s[i] + 32 ELSE s[i]]

\* Python's `sub in s` for strings
Contains(sub, s) ==
    \E k \in 0..(Len(s) - Len(sub)) :
        \A j \in 1..Len(sub) : s[k + j] = sub[j]

\* Python's s[:n]
Slice(s, n) == SubSeq(s, 1, Min(n, Len(s)))

\* Python's a < b for strings: by code point, a proper prefix first
StrLess(a, b) ==
    \E k \in 1..(Min(Len(a), Len(b)) + 1) :
        /\ \A j \in 1..(k - 1) : a[j] = b[j]
        /\ \/ k = Len(a) + 1 /\ k <= Len(b)
           \/ k <= Len(a) /\ k <= Len(b) /\ a[k] < b[k]

\* the positions of a list that satisfy a test, in list order
RECURSIVE Filter(_, _)
Filter(s, keep) ==
    IF s = <<>> THEN <<>>
    ELSE IF keep[1]
         THEN <<s[1]>> \o Filter(Tail(s), Tail(keep))
         ELSE Filter(Tail(s), Tail(keep))

RECURSIVE Insert(_, _)
Insert(x, s) ==
    IF s = <<>> THEN <<x>>
    ELSE IF StrLess(x, s[1]) THEN <<x>> \o s
         ELSE <<s[1]>> \o Insert(x, Tail(s))

\* sorted() of a list of strings
RECURSIVE sorted(_)
sorted(s) == IF s = <<>> THEN <<>> ELSE Insert(s[1], sorted(Tail(s)))

\* str() of a non-negative integer: its decimal digits, '0' being 48
RECURSIVE str(_)
str(n) == IF n < 10 THEN <<48 + n>> ELSE str(n \div 10) \o <<48 + (n % 10)>>

(***************************************************************************)
(* DataFrames.                                                             *)
(***************************************************************************)
\* df[name] = vals: replaces the column, or appends it as the last column
SetCol(df, name, vals) ==
    LET cols == IF name \in Range(df.columns) THEN df.columns
                ELSE Append(df.columns, name)
    IN  [index   |-> df.index,
         columns |-> cols,
         data    |-> [c \in Range(cols) |-> IF c = name THEN vals ELSE df.data[c]]]

\* df[mask]: the rows whose mask is TRUE, labels kept
SelectRows(df, mask) ==
    [index   |-> Filter(df.index, mask),
     columns |-> df.columns,
     data    |-> [c \in Range(df.columns) |-> Filter(df.data[c], mask)]]

\* the outcome of a call: a frame, or the exception it raised
Ok(df) == [ok |-> TRUE, df |-> df, err |-> "none"]
Raise(df, e) == [ok |-> FALSE, df |-> df, err |-> e]

\* the list comprehension [col for col in cols if sub in col.lower()]
ColsWith(cols, sub) == Filter(cols, [i \in DOMAIN cols |-> Contains(sub, lower(cols[i]))])

\* elementwise sum of two columns
AddCols(a, b) == [i \in DOMAIN a |-> a[i] + b[i]]

\* a column of floats divided by 100.0
Div100(a) == [i \in DOMAIN a |-> a[i] \div 100]

(***************************************************************************)
(* magnaprobe.strip_junk_rows                                              *)
(***************************************************************************)
strip_junk_rows(raw_df, first_n_rows) ==
    SelectRows(raw_df, [i \in DOMAIN raw_df.index |-> i > first_n_rows])

(***************************************************************************)
(* magnaprobe.consolidate_coords                                           *)
(***************************************************************************)
\* df.columns = [c.lower() for c in df.columns]
LowerColumns(df) ==
    LET cols == [i \in DOMAIN df.columns |-> lower(df.columns[i])]
    IN  [index   |-> df.index,
         columns |-> cols,
         data    |-> [c \in Range(cols) |->
                        df.data[df.columns[CHOOSE i \in DOMAIN cols : cols[i] = c]]]]

\* a variant of coord_cols that leaves the 'tude' columns in file order
coord_cols_unsorted(df) == ColsWith(df.columns, s_tude)

\* the 'tude' columns, sorted
coord_cols(df) == sorted(ColsWith(df.columns, s_tude))

\* case 3: decimal degrees in one field, integer degrees in another
SplitCoords(df) ==
    LET dec_deg_cols == sorted(Filter(coord_cols(df),
                            [i \in DOMAIN coord_cols(df) |-> Contains(s_dd, coord_cols(df)[i])]))
        int_deg_cols == sorted(Filter(coord_cols(df),
                            [i \in DOMAIN coord_cols(df) |-> Contains(s__a, coord_cols(df)[i])]))
    IN  IF Len(dec_deg_cols) < 2 \/ Len(int_deg_cols) < 2
        THEN Raise(df, "IndexError")
        ELSE Ok(SetCol(SetCol(df, s_Latitude,
                              AddCols(df.data[int_deg_cols[1]], df.data[dec_deg_cols[1]])),
                       s_Longitude,
                       AddCols(df.data[int_deg_cols[2]], df.data[dec_deg_cols[2]])))

consolidate_coords(df0) ==
    LET df == LowerColumns(df0)
    IN  IF Len(coord_cols(df)) = 2
        THEN Ok(SetCol(SetCol(df, s_Latitude, df.data[coord_cols(df)[1]]),
                       s_Longitude, df.data[coord_cols(df)[2]]))
        ELSE IF s_lat \in Range(df.columns)
        THEN IF s_lon \in Range(df.columns)
             THEN Ok(SetCol(SetCol(df, s_Latitude, df.data[s_lat]),
                            s_Longitude, df.data[s_lon]))
             ELSE Raise(df, "KeyError")
        ELSE SplitCoords(df)

(***************************************************************************)
(* magnaprobe.convert_depth_cm_to_m                                        *)
(***************************************************************************)
\* a variant of DepthLoop that stops at the first column with a marker
RECURSIVE DepthLoop_break(_, _)
DepthLoop_break(df, cols) ==
    IF cols = <<>> THEN df
    ELSE IF Contains(s_cm, lower(cols[1]))
         THEN SetCol(df, s_Snow_Depth_m, Div100(df.data[cols[1]]))
         ELSE IF Contains(s__m, lower(cols[1]))
              THEN SetCol(df, s_Snow_Depth_m, df.data[cols[1]])
              ELSE DepthLoop_break(df, Tail(cols))

\* the body of `for i in depth_cols`, for the columns still to visit
RECURSIVE DepthLoop(_, _)
DepthLoop(df, cols) ==
    IF cols = <<>> THEN df
    ELSE IF Contains(s_cm, lower(cols[1]))
         THEN DepthLoop(SetCol(df, s_Snow_Depth_m, Div100(df.data[cols[1]])), Tail(cols))
         ELSE IF Contains(s__m, lower(cols[1]))
              THEN DepthLoop(SetCol(df, s_Snow_Depth_m, df.data[cols[1]]), Tail(cols))
              ELSE DepthLoop(df, Tail(cols))

depth_cols(df) == sorted(ColsWith(df.columns, s_depth))

convert_depth_cm_to_m(df) ==
    IF Len(depth_cols(df)) # 1
    THEN DepthLoop(df, depth_cols(df))
    ELSE IF Contains(s_cm, lower(depth_cols(df)[1]))
         THEN SetCol(df, s_Snow_Depth_m, Div100(df.data[depth_cols(df)[1]]))
         ELSE SetCol(df, s_Snow_Depth_m, df.data[depth_cols(df)[1]])

(***************************************************************************)
(* magnaprobe.trim_cols                                                    *)
(***************************************************************************)
trim_cols(df, list_of_cols_to_keep) ==
    IF \E i \in DOMAIN list_of_cols_to_keep :
           list_of_cols_to_keep[i] \notin Range(df.columns)
    THEN Raise(df, "KeyError")
    ELSE Ok([index   |-> df.index,
             columns |-> list_of_cols_to_keep,
             data    |-> [c \in Range(list_of_cols_to_keep) |-> df.data[c]]])

(***************************************************************************)
(* magnaprobe.drop_calibration_points                                      *)
(***************************************************************************)
\* the missing value that Series.shift puts where no row is shifted in
NaN == -1

\* a variant of shift that fills the rows nothing is shifted into with 0
shift_fill_zero(s, periods) ==
    [i \in DOMAIN s |-> IF i - periods \in DOMAIN s THEN s[i - periods] ELSE 0]

\* Series.shift(periods): row i takes the value of row i - periods
shift(s, periods) ==
    [i \in DOMAIN s |-> IF i - periods \in DOMAIN s THEN s[i - periods] ELSE NaN]

\* series < bound and series > bound; a comparison with NaN is False
lt(s, bound) == [i \in DOMAIN s |-> s[i] # NaN /\ s[i] < bound]
gt(s, bound) == [i \in DOMAIN s |-> s[i] # NaN /\ s[i] > bound]

\* df.counter.astype('str').str[:2] != str(calibration_prefix)
prefix_mask(df, calibration_prefix) ==
    [i \in DOMAIN df.index |->
        Slice(str(df.data[s_counter][i]), 2) # str(calibration_prefix)]

\* a variant of cal_patterns that looks at the following row only (cal1 | cal3)
cal_patterns_one_side(d, cal_lower, cal_upper) ==
    [i \in DOMAIN d |->
        \/ lt(d, cal_lower)[i] /\ gt(shift(d, -1), cal_upper)[i]
        \/ gt(d, cal_upper)[i] /\ lt(shift(d, -1), cal_lower)[i]]

\* cal1 | cal2 | ... | cal12 over the depth series d
cal_patterns(d, cal_lower, cal_upper) ==
    LET mp_bottom       == lt(d, cal_lower)
        mp_top          == gt(d, cal_upper)
        prev_mp_bottom  == lt(shift(d, -1), cal_lower)
        prev_mp_top     == gt(shift(d, -1), cal_upper)
        next_mp_bottom  == lt(shift(d, 1), cal_lower)
        next_mp_top     == gt(shift(d, 1), cal_upper)
        prev2_mp_bottom == lt(shift(d, -2), cal_lower)
        prev2_mp_top    == gt(shift(d, -2), cal_upper)
        next2_mp_bottom == lt(shift(d, 2), cal_lower)
        next2_mp_top    == gt(shift(d, 2), cal_upper)
        prev3_mp_bottom == lt(shift(d, -3), cal_lower)
        prev3_mp_top    == gt(shift(d, -3), cal_upper)
        next3_mp_bottom == lt(shift(d, 3), cal_lower)
        next3_mp_top    == gt(shift(d, 3), cal_upper)
    IN  [i \in DOMAIN d |->
            LET cal1  == mp_bottom[i] /\ prev_mp_top[i]
                cal2  == mp_bottom[i] /\ next_mp_top[i]
                cal3  == mp_top[i] /\ prev_mp_bottom[i]
                cal4  == mp_top[i] /\ next_mp_bottom[i]
                cal5  == mp_bottom[i] /\ prev_mp_bottom[i] /\ prev2_mp_bottom[i]
                cal6  == mp_top[i] /\ prev_mp_top[i] /\ prev2_mp_top[i]
                cal7  == mp_bottom[i] /\ next_mp_bottom[i] /\ next2_mp_top[i]
                cal8  == mp_top[i] /\ next_mp_top[i] /\ next2_mp_bottom[i]
                cal9  == mp_bottom[i] /\ prev_mp_bottom[i] /\ prev2_mp_top[i] /\ prev3_mp_top[i]
                cal10 == mp_top[i] /\ prev_mp_top[i] /\ prev2_mp_bottom[i] /\ prev3_mp_bottom[i]
                cal11 == mp_bottom[i] /\ next_mp_bottom[i] /\ next2_mp_top[i] /\ next3_mp_top[i]
                cal12 == mp_top[i] /\ next_mp_top[i] /\ next2_mp_bottom[i] /\ next3_mp_bottom[i]
            IN  cal1 \/ cal2 \/ cal3 \/ cal4 \/ cal5 \/ cal6 \/ cal7 \/ cal8
                  \/ cal9 \/ cal10 \/ cal11 \/ cal12]

\* dfc.drop(dfc[mask].index): every row whose label is the label of a masked row
DropMasked(dfc, mask) ==
    LET labels == Range(Filter(dfc.index, mask))
    IN  SelectRows(dfc, [i \in DOMAIN dfc.index |-> dfc.index[i] \notin labels])

\* the rows left after culling by counter prefix
CullPrefix(df, calibration_prefix) ==
    SelectRows(df, prefix_mask(df, calibration_prefix))

\* a variant of drop_calibration_points that looks for the patterns in df, before
\* the rows with the prefix are taken out, and drops what either detector found
drop_calibration_points_unioned(df, calibration_prefix, cal_lower, cal_upper) ==
    LET dfc    == CullPrefix(df, calibration_prefix)
        labels == Range(Filter(df.index,
                               cal_patterns(df.data[s_Snow_Depth_m], cal_lower, cal_upper)))
    IN  SelectRows(dfc, [i \in DOMAIN dfc.index |-> dfc.index[i] \notin labels])

drop_calibration_points(df, calibration_prefix, cal_lower, cal_upper) ==
    LET dfc == CullPrefix(df, calibration_prefix)
    IN  DropMasked(dfc, cal_patterns(dfc.data[s_Snow_Depth_m], cal_lower, cal_upper))

(***************************************************************************)
(* magnaprobe.create_geometry, create_geodataframe, convert_wgs_to_utm     *)
(***************************************************************************)
\* shapely Point((Longitude, Latitude)), in the reference system of the frame
Point(x, y) == [x |-> x, y |-> y]

create_geometry(df) ==
    SetCol(df, s_geometry,
           [i \in DOMAIN df.index |->
               Point(df.data[s_Longitude][i], df.data[s_Latitude][i])])

\* GeoDataFrame(df, geometry='geometry') with gdf.crs = 'epsg:4326'
create_geodataframe(df) ==
    [index |-> df.index, columns |-> df.columns, data |-> df.data, crs |-> 4326]

\* gdf.to_crs('epsg:' + str(epsg_code)): the reprojection is done by geopandas;
\* the frame keeps its rows, in order, and takes the target reference system
convert_wgs_to_utm(gdf, epsg_code) ==
    [index |-> gdf.index, columns |-> gdf.columns, data |-> gdf.data, crs |-> epsg_code]

(***************************************************************************)
(* The configuration of the drivers (batch_magnaprobe.py, and the literals *)
(* of the magnaprobe.py main block).                                       *)
(***************************************************************************)
junk_rows == 2
epsg_code == 32606
calibration_prefix == 99
\* 0.02
calibration_depth_min_cutoff == 2
\* 1.18
calibration_depth_max_cutoff == 118
cols_to_keep == <<s_timestamp, s_counter, s_Latitude, s_Longitude, s_Snow_Depth_m>>

(***************************************************************************)
(* The raw files read_tabular returns.                                     *)
(***************************************************************************)
\* depths of the records, in hundredths of a metre: low, ordinary, high
Depths == {1, 50, 120}
\* the depths [0.50, 0.01, 1.20, 0.48]
ExampleDepths == <<50, 1, 120, 48>>
\* counters: one character, "99" not in front, "99" in front
Counters == {7, 199, 9912}
\* the calibration bounds handed to drop_calibration_points: the drivers' pair, and
\* pairs with lower >= upper
BoundPairs == {<<2, 118>>, <<118, 2>>, <<50, 50>>}

\* the columns of an ordinary file
DefaultColumns ==
    <<s_TIMESTAMP, s_Counter, s_Longitude_x, s_Latitude_y, s_DepthCm, s_depthBattVolts>>

\* every column a file of the schema specification may have, in file order
AllColumns ==
    <<s_TIMESTAMP, s_Counter, s_Longitude_x, s_Latitude_y, s_lon, s_lat,
      s_Longitude_a, s_latitude_a, s_LongitudeDDDDD, s_LatitudeDDDDD, s_altitudeB,
      s_depth_m, s_depth_cm, s_DepthCm, s_depthBattVolts>>

\* the cell of a record in a column: the counter, the depth in cm, or a value
\* that tells the column from every other column
Cell(c, counter, depth) ==
    CASE c = s_Counter        -> counter
      [] c = s_DepthCm        -> 100 * depth
      [] c = s_depth_cm       -> 4800
      [] c = s_depth_m        -> 52
      [] c = s_depthBattVolts -> 1250
      [] c = s_Longitude_x    -> 14785
      [] c = s_Latitude_y     -> 6485
      [] c = s_lon            -> 14786
      [] c = s_lat            -> 6486
      [] c = s_Longitude_a    -> 14700
      [] c = s_latitude_a     -> 6400
      [] c = s_LongitudeDDDDD -> 87
      [] c = s_LatitudeDDDDD  -> 83
      [] c = s_altitudeB      -> 13000
      [] OTHER                -> 0

\* the frame of a file: junk_rows rows of units under the header, then one row
\* per record, labelled 0, 1, 2, ... in file order
read_tabular(columns, counters, depths) ==
    LET n == Len(depths)
    IN  [index   |-> [i \in 1..(n + junk_rows) |-> i - 1],
         columns |-> columns,
         data    |-> [c \in Range(columns) |->
                        [i \in 1..(n + junk_rows) |->
                            IF i <= junk_rows THEN 0
                            ELSE Cell(c, counters[i - junk_rows], depths[i - junk_rows])]]]

(***************************************************************************)
(* State.                                                                  *)
(***************************************************************************)
VARIABLES
    driver,     \* "main": magnaprobe.py __main__; "batch": batch_clean, for one file f
    pc,         \* the call the driver makes next
    df,         \* the frame the driver holds: df in main, df then clean_df in batch
    df2,        \* what drop_calibration_points returned
    geom_df,    \* what create_geometry was handed and returned
    gdf,        \* what create_geodataframe returned
    utm_df,     \* what convert_wgs_to_utm returned
    out,        \* what is kept: the saved files (main), mp_file_dict[f] (batch)
    err,        \* the exception that ended the run, "none" when there is none
    cal_lower,  \* the bounds handed to drop_calibration_points
    cal_upper

vars == <<driver, pc, df, df2, geom_df, gdf, utm_df, out, err, cal_lower, cal_upper>>

NoFrame == [index |-> <<>>, columns |-> <<>>, data |-> <<>>]
NoGeoFrame == [index |-> <<>>, columns |-> <<>>, data |-> <<>>, crs |-> 0]

Start(drv, raw_df, lo, hi) ==
    /\ driver = drv
    /\ pc = "strip_junk_rows"
    /\ df = raw_df
    /\ df2 = NoFrame
    /\ geom_df = NoFrame
    /\ gdf = NoGeoFrame
    /\ utm_df = NoGeoFrame
    /\ out = NoGeoFrame
    /\ err = "none"
    /\ cal_lower = lo
    /\ cal_upper = hi

\* either driver, an ordinary file whose records may carry the calibration prefix
Init ==
    \E drv \in {"main", "batch"}, n \in 0..MaxLenPrefix :
        \E counters \in [1..n -> Counters], depths \in [1..n -> Depths] :
            Start(drv, read_tabular(DefaultColumns, counters, depths),
                  calibration_depth_min_cutoff, calibration_depth_max_cutoff)

\* either driver, an ordinary file in which no record carries the calibration prefix
InitPattern ==
    \E drv \in {"main", "batch"}, n \in 0..MaxLenPattern :
        \E depths \in [1..n -> Depths] \cup {ExampleDepths} :
            Start(drv,
                  read_tabular(DefaultColumns, [i \in 1..Len(depths) |-> 100 + i], depths),
                  calibration_depth_min_cutoff, calibration_depth_max_cutoff)

\* a file of one record with any of the columns of AllColumns
InitSchema ==
    \E has \in [DOMAIN AllColumns -> BOOLEAN] :
        /\ has[1] /\ has[2]
        /\ Start("main", read_tabular(Filter(AllColumns, has), <<101>>, <<50>>),
                 calibration_depth_min_cutoff, calibration_depth_max_cutoff)

\* an ordinary file cleaned with any of the pairs of bounds
InitBounds ==
    \E b \in BoundPairs, n \in 0..MaxLenBounds :
        \E depths \in [1..n -> Depths] :
            Start("main",
                  read_tabular(DefaultColumns, [i \in 1..n |-> 100 + i], depths),
                  b[1], b[2])

(***************************************************************************)
(* The calls of the drivers, in program order.                             *)
(***************************************************************************)
StripJunkRows ==
    /\ pc = "strip_junk_rows"
    /\ df' = strip_junk_rows(df, junk_rows)
    /\ pc' = "consolidate_coords"
    /\ UNCHANGED <<driver, df2, geom_df, gdf, utm_df, out, err, cal_lower, cal_upper>>

ConsolidateCoords ==
    /\ pc = "consolidate_coords"
    /\ LET r == consolidate_coords(df)
       IN  /\ df' = r.df
           /\ err' = r.err
           /\ pc' = IF r.ok THEN "convert_depth_cm_to_m" ELSE "error"
    /\ UNCHANGED <<driver, df2, geom_df, gdf, utm_df, out, cal_lower, cal_upper>>

ConvertDepthCmToM ==
    /\ pc = "convert_depth_cm_to_m"
    /\ df' = convert_depth_cm_to_m(df)
    /\ pc' = "trim_cols"
    /\ UNCHANGED <<driver, df2, geom_df, gdf, utm_df, out, err, cal_lower, cal_upper>>

TrimCols ==
    /\ pc = "trim_cols"
    /\ LET r == trim_cols(df, cols_to_keep)
       IN  /\ df' = r.df
           /\ err' = r.err
           /\ pc' = IF r.ok THEN "drop_calibration_points" ELSE "error"
    /\ UNCHANGED <<driver, df2, geom_df, gdf, utm_df, out, cal_lower, cal_upper>>

\* main rebinds df to the frame returned; batch_clean calls the function and
\* goes on with clean_df
DropCalibrationPoints ==
    /\ pc = "drop_calibration_points"
    /\ df2' = drop_calibration_points(df, calibration_prefix, cal_lower, cal_upper)
    /\ df' = IF driver = "main" THEN df2' ELSE df
    /\ pc' = "create_geometry"
    /\ UNCHANGED <<driver, geom_df, gdf, utm_df, out, err, cal_lower, cal_upper>>

\* create_geometry adds the column to the frame it is handed and returns it; in
\* main that frame is the one drop_calibration_points returned
CreateGeometry ==
    /\ pc = "create_geometry"
    /\ geom_df' = create_geometry(df)
    /\ df' = geom_df'
    /\ df2' = IF driver = "main" THEN geom_df' ELSE df2
    /\ pc' = "create_geodataframe"
    /\ UNCHANGED <<driver, gdf, utm_df, out, err, cal_lower, cal_upper>>

CreateGeoDataFrame ==
    /\ pc = "create_geodataframe"
    /\ gdf' = create_geodataframe(geom_df)
    /\ pc' = "convert_wgs_to_utm"
    /\ UNCHANGED <<driver, df, df2, geom_df, utm_df, out, err, cal_lower, cal_upper>>

ConvertWgsToUtm ==
    /\ pc = "convert_wgs_to_utm"
    /\ utm_df' = convert_wgs_to_utm(gdf, epsg_code)
    /\ pc' = "save"
    /\ UNCHANGED <<driver, df, df2, geom_df, gdf, out, err, cal_lower, cal_upper>>

\* save_as_csv and save_as_shp (main); mp_file_dict[f]['cleaned_utm_df'] (batch)
Save ==
    /\ pc = "save"
    /\ out' = utm_df
    /\ pc' = "done"
    /\ UNCHANGED <<driver, df, df2, geom_df, gdf, utm_df, err, cal_lower, cal_upper>>

Next ==
    \/ StripJunkRows
    \/ ConsolidateCoords
    \/ ConvertDepthCmToM
    \/ TrimCols
    \/ DropCalibrationPoints
    \/ CreateGeometry
    \/ CreateGeoDataFrame
    \/ ConvertWgsToUtm
    \/ Save

Spec == Init /\ [][Next]_vars
SpecPattern == InitPattern /\ [][Next]_vars
SpecSchema == InitSchema /\ [][Next]_vars
SpecBounds == InitBounds /\ [][Next]_vars

(***************************************************************************)
(* Vocabulary of the properties.  `fin` is the frame handed to             *)
(* drop_calibration_points and `fout` the frame it returned; positions are *)
(* 1-based positions in `fin`.                                             *)
(***************************************************************************)
Depth(fin) == fin.data[s_Snow_Depth_m]

\* a position outside the sequence is neither low nor high
Low(d, i, lo) == i \in DOMAIN d /\ d[i] < lo
High(d, i, hi) == i \in DOMAIN d /\ d[i] > hi

Removed(fin, fout, i) == fin.index[i] \notin Range(fout.index)

\* the counter, written out, begins with the two characters "99"
Tagged(fin, i) ==
    LET c == str(fin.data[s_counter][i])
    IN  Len(c) >= 2 /\ c[1] = 57 /\ c[2] = 57

\* the twelve conjunctions of the detector, over a reading L(k) / H(k) of "the
\* record k places after the current one is low / high"
TwelvePatterns(L(_), H(_)) ==
    \/ L(0) /\ H(1)
    \/ L(0) /\ H(-1)
    \/ H(0) /\ L(1)
    \/ H(0) /\ L(-1)
    \/ L(0) /\ L(1) /\ L(2)
    \/ H(0) /\ H(1) /\ H(2)
    \/ L(0) /\ L(-1) /\ H(-2)
    \/ H(0) /\ H(-1) /\ L(-2)
    \/ L(0) /\ L(1) /\ H(2) /\ H(3)
    \/ H(0) /\ H(1) /\ L(2) /\ L(3)
    \/ L(0) /\ L(-1) /\ H(-2) /\ H(-3)
    \/ H(0) /\ H(-1) /\ L(-2) /\ L(-3)

\* patterns A, B and C in direction dir (1 or -1), as the specification words them
PatternA(L(_), H(_), dir) ==
    \/ L(0) /\ H(dir)
    \/ H(0) /\ L(dir)
PatternB(L(_), H(_), dir) ==
    \/ L(0) /\ L(dir) /\ H(2 * dir)
    \/ H(0) /\ H(dir) /\ L(2 * dir)
PatternC(L(_), H(_), dir) ==
    \/ L(0) /\ L(dir) /\ L(2 * dir) /\ H(3 * dir)
    \/ H(0) /\ H(dir) /\ H(2 * dir) /\ L(3 * dir)

\* the frame with its rows in the opposite order
Reverse(s) == [i \in DOMAIN s |-> s[Len(s) + 1 - i]]
ReverseFrame(f) ==
    [index   |-> Reverse(f.index),
     columns |-> f.columns,
     data    |-> [c \in Range(f.columns) |-> Reverse(f.data[c])]]

\* the step in which drop_calibration_points is called and returns
Dropping == pc = "drop_calibration_points"
\* the states after it has returned
Dropped == pc \in {"create_geometry", "create_geodataframe", "convert_wgs_to_utm",
                   "save", "done"}
\* the states after create_geometry has been handed a frame
Handed == pc \in {"create_geodataframe", "convert_wgs_to_utm", "save", "done"}

(***************************************************************************)
(* The drivers.                                                            *)
(***************************************************************************)
\* the records of a frame, in row order: label, counter and depth of each row
RecordsOf(f) ==
    [i \in DOMAIN f.index |-> <<f.index[i], f.data[s_counter][i], f.data[s_Snow_Depth_m][i]>>]

\* C1: in both drivers, the records handed to create_geometry, and from there to
\* create_geodataframe, convert_wgs_to_utm and the saved output, are exactly the
\* survivors drop_calibration_points returned for the file, in order.
C1_SurvivorsReachGeometry ==
    /\ Handed => RecordsOf(geom_df) = RecordsOf(df2)
    /\ pc = "done" => RecordsOf(out) = RecordsOf(df2)

(***************************************************************************)
(* The pattern detector, on files without prefix-tagged counters.          *)
(***************************************************************************)
PatternA_Removes(fin, fout, lo, hi) ==
    \A i \in DOMAIN fin.index :
        LET L(k) == Low(Depth(fin), i + k, lo)
            H(k) == High(Depth(fin), i + k, hi)
        IN  (PatternA(L, H, 1) \/ PatternA(L, H, -1)) => Removed(fin, fout, i)

Example_Removes(fin, fout, lo, hi) ==
    (Depth(fin) = ExampleDepths /\ lo = 2 /\ hi = 118)
        => fout.index = <<fin.index[1], fin.index[4]>>

\* C2: in a file without prefix-tagged counters, a low record next to a high
\* record and a high record next to a low record are removed; for the bounds
\* (0.02, 1.18) and the depths [0.50, 0.01, 1.20, 0.48] exactly positions 1 and 2
\* are removed.
C2_PatternA ==
    [][Dropping =>
          /\ PatternA_Removes(df, df2', cal_lower, cal_upper)
          /\ Example_Removes(df, df2', cal_lower, cal_upper)]_vars

\* drop_calibration_points has returned positions 0 and 3 of the example
C2_Witness ==
    /\ driver = "batch"
    /\ pc = "create_geometry"
    /\ Depth(df) = ExampleDepths
    /\ Depth(df2) = <<50, 48>>

PatternsBC_Remove(fin, fout, lo, hi) ==
    \A i \in DOMAIN fin.index :
        LET L(k) == Low(Depth(fin), i + k, lo)
            H(k) == High(Depth(fin), i + k, hi)
        IN  \A dir \in {1, -1} :
                (PatternB(L, H, dir) \/ PatternC(L, H, dir)) => Removed(fin, fout, i)

\* C3: in a file without prefix-tagged counters, a record that starts a run of
\* two (B) or three (C) records at one bound followed, in either direction, by a
\* record at the opposite bound is removed.
C3_PatternsBC ==
    [][Dropping => PatternsBC_Remove(df, df2', cal_lower, cal_upper)]_vars

NoPattern_Retained(fin, fout, lo, hi) ==
    \A i \in DOMAIN fin.index :
        LET L(k) == Low(Depth(fin), i + k, lo)
            H(k) == High(Depth(fin), i + k, hi)
        IN  (\A dir \in {1, -1} :
                ~ (PatternA(L, H, dir) \/ PatternB(L, H, dir) \/ PatternC(L, H, dir)))
            => ~ Removed(fin, fout, i)

\* C4: a record without the prefix that matches none of the patterns A, B, C of
\* the specification is retained; so a low record with no high record within 3
\* positions, and a high record with no low record within 3 positions, stays.
C4_NoPatternRetained ==
    [][Dropping => NoPattern_Retained(df, df2', cal_lower, cal_upper)]_vars

Reversal_Symmetric(fin, fout, lo, hi) ==
    LET rout == drop_calibration_points(ReverseFrame(fin), calibration_prefix, lo, hi)
    IN  \A i \in DOMAIN fin.index :
            (i - 1 >= 3 /\ Len(fin.index) - i >= 3)
                => (Removed(fin, fout, i) <=> fin.index[i] \notin Range(rout.index))

\* C5: a record at least 3 positions from both ends of a file without
\* prefix-tagged counters is removed from the file exactly if it is removed from
\* the file read in the opposite order.
C5_ReversalSymmetry ==
    [][Dropping => Reversal_Symmetric(df, df2', cal_lower, cal_upper)]_vars

Missing_Neighbours_Do_Not_Match(fin, fout, lo, hi) ==
    \A i \in DOMAIN fin.index :
        LET L(k) == Low(Depth(fin), i + k, lo)
            H(k) == High(Depth(fin), i + k, hi)
        IN  Removed(fin, fout, i) <=> TwelvePatterns(L, H)

Untagged(f) ==
    [index   |-> f.index,
     columns |-> f.columns,
     data    |-> [c \in Range(f.columns) |->
                    IF c = s_counter THEN [i \in DOMAIN f.index |-> 7] ELSE f.data[c]]]

Union_In_File_Order(fin, fout, lo, hi) ==
    /\ \A i \in DOMAIN fin.index :
          LET L(k) == Low(Depth(fin), i + k, lo)
              H(k) == High(Depth(fin), i + k, hi)
          IN  Removed(fin, fout, i) <=> (Tagged(fin, i) \/ TwelvePatterns(L, H))
    /\ LET uout == drop_calibration_points(Untagged(fin), calibration_prefix, lo, hi)
       IN  \A i \in DOMAIN fin.index :
               ~ Tagged(fin, i) =>
                   (Removed(fin, fout, i) <=> fin.index[i] \notin Range(uout.index))

\* C6 as claimed: the records removed are those with the prefix together with those
\* matching a pattern among their neighbours in file order, prefix-tagged rows
\* included; whether a record without the prefix is removed does not depend on
\* which other records carry the prefix.
C6_UnionInFileOrder ==
    [][Dropping => Union_In_File_Order(df, df2', cal_lower, cal_upper)]_vars

\* the positions without the prefix, and how many of them come up to position j
Kept(fin) == {j \in DOMAIN fin.index : ~ Tagged(fin, j)}
Rank(fin, j) == Cardinality({k \in Kept(fin) : k <= j})
\* the record k places after record i among the records without the prefix
LowKept(fin, i, k, lo) ==
    \E j \in Kept(fin) : Rank(fin, j) = Rank(fin, i) + k /\ Depth(fin)[j] < lo
HighKept(fin, i, k, hi) ==
    \E j \in Kept(fin) : Rank(fin, j) = Rank(fin, i) + k /\ Depth(fin)[j] > hi

Union_In_Culled_Order(fin, fout, lo, hi) ==
    \A i \in DOMAIN fin.index :
        LET L(k) == LowKept(fin, i, k, lo)
            H(k) == HighKept(fin, i, k, hi)
        IN  Removed(fin, fout, i) <=>
                (Tagged(fin, i) \/ (~ Tagged(fin, i) /\ TwelvePatterns(L, H)))

\* C6 as amended: the records removed are those with the prefix together with
\* those without it that match one of the twelve conjunctions among the records
\* left after the prefix-tagged rows are taken out (the neighbours of a record
\* are the nearest records without the prefix).
C6_UnionInCulledOrder ==
    [][Dropping => Union_In_Culled_Order(df, df2', cal_lower, cal_upper)]_vars

\* a low and a high record with a prefix-tagged ordinary record between them: all
\* three were removed
C6_Witness ==
    /\ driver = "batch"
    /\ pc = "create_geometry"
    /\ Depth(df) = <<1, 50, 120>>
    /\ ~ Tagged(df, 1) /\ Tagged(df, 2) /\ ~ Tagged(df, 3)
    /\ df2.index = <<>>

(***************************************************************************)
(* Depth resolution.                                                       *)
(***************************************************************************)
\* the least of a set of strings
MinOf(S) == CHOOSE c \in S : \A o \in S \ {c} : StrLess(c, o)
\* the greatest of a set of strings
MaxOf(S) == CHOOSE c \in S : \A o \in S \ {c} : StrLess(o, c)

\* the depth-like columns convert_depth_cm_to_m found, and those with a marker
DepthLike == {c \in Range(df.columns) \ {s_Snow_Depth_m} : Contains(s_depth, lower(c))}
CmCols == {c \in DepthLike : Contains(s_cm, lower(c))}
MCols == {c \in DepthLike \ CmCols : Contains(s__m, lower(c))}
Resolved == s_Snow_Depth_m \in Range(df.columns)

\* C8 as claimed: with two or more depth-like columns, 'Snow Depth m' is a column
\* containing 'cm', divided by 100, whenever there is one, however the names sort;
\* a depth-like column with neither marker is never the source.
C8_CmPreferred ==
    (pc = "trim_cols" /\ Cardinality(DepthLike) >= 2) =>
        /\ CmCols # {} =>
              /\ Resolved
              /\ \E c \in CmCols : df.data[s_Snow_Depth_m] = Div100(df.data[c])
        /\ Resolved =>
              \A c \in DepthLike \ (CmCols \cup MCols) :
                  /\ df.data[s_Snow_Depth_m] # df.data[c]
                  /\ df.data[s_Snow_Depth_m] # Div100(df.data[c])

\* C8 as amended: with two or more depth-like columns, 'Snow Depth m' is the
\* column that sorts last among those containing 'cm' or '_m', divided by 100 if
\* it contains 'cm' and as it is otherwise; without any such column it is not
\* set; a depth-like column with neither marker is never the source.
C8_LastMarkedColumn ==
    (pc = "trim_cols" /\ Cardinality(DepthLike) >= 2) =>
        /\ Resolved <=> (CmCols \cup MCols) # {}
        /\ Resolved =>
              /\ LET last == MaxOf(CmCols \cup MCols)
                 IN  df.data[s_Snow_Depth_m] =
                        IF last \in CmCols THEN Div100(df.data[last]) ELSE df.data[last]
              /\ \A c \in DepthLike \ (CmCols \cup MCols) :
                    /\ df.data[s_Snow_Depth_m] # df.data[c]
                    /\ df.data[s_Snow_Depth_m] # Div100(df.data[c])

\* with 'depth_cm' and 'depth_m' both in the file, 'Snow Depth m' is 'depth_m'
C8_Witness ==
    /\ pc = "trim_cols"
    /\ s_depth_cm \in DepthLike /\ s_depth_m \in DepthLike
    /\ df.data[s_Snow_Depth_m] = df.data[s_depth_m]
    /\ df.data[s_Snow_Depth_m] # Div100(df.data[s_depth_cm])

(***************************************************************************)
(* Coordinate resolution.                                                  *)
(***************************************************************************)
\* the 'tude' columns consolidate_coords found
TudeCols == {c \in Range(df.columns) \ {s_Latitude, s_Longitude} : Contains(s_tude, c)}
IntDegCols == {c \in TudeCols : Contains(s__a, c)}
DecDegCols == {c \in TudeCols : Contains(s_dd, c)}
Second(S) == MinOf(S \ {MinOf(S)})

\* C9: after consolidate_coords, (1) with exactly two 'tude' columns Latitude is
\* the one whose case-folded name sorts first and Longitude the other, also when
\* 'lat' and 'lon' exist; (2) otherwise, with a column 'lat', Latitude is 'lat'
\* and Longitude is 'lon'; (3) otherwise Latitude is the first '_a' column plus
\* the first 'dd' column and Longitude the second '_a' column plus the second
\* 'dd' column.  Columns 'Longitude_x', 'Latitude_y' give latitude_y, longitude_x.
C9_CoordinatePriority ==
    pc = "convert_depth_cm_to_m" =>
        /\ IF Cardinality(TudeCols) = 2
           THEN /\ df.data[s_Latitude] = df.data[MinOf(TudeCols)]
                /\ df.data[s_Longitude] = df.data[MaxOf(TudeCols)]
           ELSE IF s_lat \in Range(df.columns)
           THEN /\ df.data[s_Latitude] = df.data[s_lat]
                /\ df.data[s_Longitude] = df.data[s_lon]
           ELSE /\ df.data[s_Latitude] =
                      AddCols(df.data[MinOf(IntDegCols)], df.data[MinOf(DecDegCols)])
                /\ df.data[s_Longitude] =
                      AddCols(df.data[Second(IntDegCols)], df.data[Second(DecDegCols)])
        /\ TudeCols = {lower(s_Longitude_x), lower(s_Latitude_y)} =>
              /\ df.data[s_Latitude] = <<Cell(s_Latitude_y, 0, 0)>>
              /\ df.data[s_Longitude] = <<Cell(s_Longitude_x, 0, 0)>>

\* a file with 'Longitude_x', 'Latitude_y', 'lon' and 'lat': rule (1) decided
C9_Witness ==
    /\ pc = "convert_depth_cm_to_m"
    /\ TudeCols = {lower(s_Longitude_x), lower(s_Latitude_y)}
    /\ s_lat \in Range(df.columns) /\ s_lon \in Range(df.columns)
    /\ df.data[s_Latitude] = df.data[lower(s_Latitude_y)]
    /\ df.data[s_Longitude] = df.data[lower(s_Longitude_x)]

(***************************************************************************)
(* Invalid bounds.                                                         *)
(***************************************************************************)
\* C10: with lower bound >= upper bound drop_calibration_points fails before any
\* row is processed: it returns no frame and the run goes no further.
C10_InvalidBoundsRejected ==
    cal_lower >= cal_upper => (~ Dropped /\ df2 = NoFrame)

====
